---- MODULE Spec2Model ----
(***************************************************************************)
(* A model of kep.spec (src/src/kep/spec.py) and of the parts of kep.rows  *)
(* that kep/tests/test_rows.py exercises: the parsing specification data   *)
(* model (ParsingInstruction, Scope, Definition, Specification), the       *)
(* row-matching primitives of Row, and RowStack's segment popping.         *)
(*                                                                         *)
(* Text is modelled as a sequence of one-character strings, so that the    *)
(* prefix and substring tests are computed and not assumed.                *)
(***************************************************************************)
EXTENDS Integers, Sequences, FiniteSets, TLC

VARIABLES
    row,                  \* SpecRow: the Row under test
    call,                 \* SpecRow: the last Row method call and what it gave
    rows,                 \* RowStack.rows, the remaining rows
    popped,               \* the last RowStack.pop call and what it returned
    instr,                \* a ParsingInstruction
    outcome,              \* the last ParsingInstruction.append call
    appended,             \* varnames whose append returned without raising
    markers,              \* Scope.__markers
    bounds,               \* the last Scope.get_bounds call
    main,                 \* Specification.main
    segment_definitions,  \* Specification.segment_definitions
    answer,               \* the last Specification accessor call
    pc,                   \* Tables.make_queue: position in the generator
    queue                 \* Tables.make_queue: the (csv_segment, pdef) pairs yielded

vars == <<row, call, rows, popped, instr, outcome, appended, markers, bounds,
          main, segment_definitions, answer, pc, queue>>

----------------------------------------------------------------------------
(* Bounds of the model *)

MaxLabelLen == 3    \* longest generated row label
MaxRows == 5        \* longest generated row sequence

----------------------------------------------------------------------------
(* Text *)

Quote == "\""
Chars == {"a", "b", Quote}

AllSeqs(S, n) == UNION {[1..k -> S] : k \in 0..n}

Labels == AllSeqs(Chars, MaxLabelLen)

\* Python's False where a method returns either False or a string.
PyFalse == "False"

IsPrefix(p, s) == Len(p) <= Len(s) /\ SubSeq(s, 1, Len(p)) = p

IsSubstring(p, s) ==
    \E k \in 0..(Len(s) - Len(p)) : SubSeq(s, k + 1, k + Len(p)) = p

\* Python result values: a returned value or a raised exception.
Returned(v) == [exc |-> "none", value |-> v]
Raised(e) == [exc |-> e, value |-> "none"]

----------------------------------------------------------------------------
(* kep.rows.Row *)

Row(cells) == [name |-> Head(cells), data |-> Tail(cells)]

\* quote normalisation: quote characters do not take part in matching
clean(s) == SelectSeq(s, LAMBDA c : c # Quote)

startswith(r, x) == IsPrefix(clean(x), clean(r.name))

matches(r, x) == r.name = x

\* the keys of a label-to-variable mapping that prefix-match the row
hits(r, mapping) == {k \in DOMAIN mapping : startswith(r, k)}

\* a slip: a key counts as a hit wherever it occurs in the label
get_varname_anywhere(r, mapping) ==
    LET h == {k \in DOMAIN mapping : IsSubstring(clean(k), clean(r.name))} IN
    IF h = {} THEN Returned(PyFalse)
    ELSE IF Cardinality(h) = 1 THEN Returned(mapping[CHOOSE k \in h : TRUE])
    ELSE Raised("ValueError")

\* Row.get_varname: no hit gives False, one hit its variable name, more than
\* one hit raises ValueError
get_varname(r, mapping) ==
    LET h == hits(r, mapping) IN
    IF h = {} THEN Returned(PyFalse)
    ELSE IF Cardinality(h) = 1 THEN Returned(mapping[CHOOSE k \in h : TRUE])
    ELSE Raised("ValueError")

\* a unit lexicon is an ordered sequence of <<pattern, unit code>>
RECURSIVE get_unit_from(_, _, _)
get_unit_from(r, lexicon, i) ==
    IF i > Len(lexicon) THEN PyFalse
    ELSE IF IsSubstring(lexicon[i][1], r.name) THEN lexicon[i][2]
    ELSE get_unit_from(r, lexicon, i + 1)

\* a slip: the scan goes on after a hit, so the last matching pattern wins
RECURSIVE get_unit_last_from(_, _, _, _)
get_unit_last_from(r, lexicon, i, unit) ==
    IF i > Len(lexicon) THEN unit
    ELSE IF IsSubstring(lexicon[i][1], r.name)
    THEN get_unit_last_from(r, lexicon, i + 1, lexicon[i][2])
    ELSE get_unit_last_from(r, lexicon, i + 1, unit)

get_unit_last(r, lexicon) == get_unit_last_from(r, lexicon, 1, PyFalse)

\* Row.get_unit: the unit code of the first pattern found in the label
get_unit(r, lexicon) == get_unit_from(r, lexicon, 1)

\* kep.rows.get_year: the label's first four characters read as a year, what
\* follows them being nothing or a footnote mark such as "1)" or " 1)";
\* 0 (Python's False) when the label is not a year.
Digits == {"0", "1", "2", "3", "4", "5", "6", "7", "8", "9"}
DigitVal(c) ==
    CASE c = "0" -> 0 [] c = "1" -> 1 [] c = "2" -> 2 [] c = "3" -> 3
      [] c = "4" -> 4 [] c = "5" -> 5 [] c = "6" -> 6 [] c = "7" -> 7
      [] c = "8" -> 8 [] c = "9" -> 9

YearMin == 1900
YearMax == 2050

RECURSIVE strip_spaces(_)
strip_spaces(s) ==
    IF s # <<>> /\ Head(s) = " " THEN strip_spaces(Tail(s)) ELSE s

\* a footnote mark: digits followed by one punctuation character
is_footnote(s) ==
    /\ Len(s) >= 2
    /\ s[Len(s)] = ")"
    /\ \A k \in 1..(Len(s) - 1) : s[k] \in Digits

get_year(s) ==
    IF Len(s) >= 4 /\ (\A k \in 1..4 : s[k] \in Digits)
    THEN LET year == 1000 * DigitVal(s[1]) + 100 * DigitVal(s[2])
                     + 10 * DigitVal(s[3]) + DigitVal(s[4])
             rest == strip_spaces(SubSeq(s, 5, Len(s)))
         IN IF (rest = <<>> \/ is_footnote(rest)) /\ year >= YearMin /\ year <= YearMax
            THEN year
            ELSE 0
    ELSE 0

is_year(s) == get_year(s) # 0

\* what a plausible slip would make of is_datarow: "some data cell is not empty"
is_datarow_by_cells(r) == \E k \in 1..Len(r.data) : r.data[k] # <<>>

\* Row.is_datarow: the row's label is a year (test_is_datarow: the row
\* ['abcd', '1', '2'] is not a data row, ["1991 1)", "4823", ...] is one)
is_datarow(r) == is_year(r.name)

----------------------------------------------------------------------------
(* Inputs of the Row methods *)

YearStems == {<<"1", "8", "1", "2">>, <<"1", "8", "9", "9">>, <<"1", "9", "0", "0">>,
              <<"1", "9", "9", "1">>, <<"1", "9", "9", "9">>, <<"2", "0", "5", "0">>,
              <<"2", "0", "5", "1">>}
YearTails == {<<>>, <<"1", ")">>, <<" ", "1", ")">>, <<"a">>, <<" ">>}
YearNames == {y \o t : y \in YearStems, t \in YearTails} \cup {<<"1", "9", "9">>}

\* UNITS: the mapper dictionary from text in table headers to unit codes, in
\* declared order, one <<pattern, unit code>> per entry. A pattern is its text
\* character by character; a character outside ASCII is written as its code
\* point, "U+0432" for the Cyrillic letter ve.
UNITS ==
  <<
    << << "U+043C", "U+043B", "U+0440", "U+0434", ".", "U+0434", "U+043E",
       "U+043B", "U+043B", "U+0430", "U+0440", "U+043E", "U+0432" >>,
       "bln_usd" >>,
    << << "U+043C", "U+043B", "U+0440", "U+0434", ".", " ", "U+0434",
       "U+043E", "U+043B", "U+043B", "U+0430", "U+0440", "U+043E", "U+0432" >>,
       "bln_usd" >>,
    << << "U+043C", "U+043B", "U+0440", "U+0434", ",", " ", "U+0434",
       "U+043E", "U+043B", "U+043B", "U+0430", "U+0440", "U+043E", "U+0432" >>,
       "bln_usd" >>,
    << << "U+043C", "U+043B", "U+0440", "U+0434", ".", "U+0440", "U+0443",
       "U+0431", "U+043B", "U+0435", "U+0439" >>,
       "bln_rub" >>,
    << << "U+043C", "U+043B", "U+0440", "U+0434", ".", " ", "U+0440",
       "U+0443", "U+0431", "U+043B", "U+0435", "U+0439" >>,
       "bln_rub" >>,
    << << "U+0440", "U+0443", "U+0431", "U+043B", "U+0435", "U+0439", " ",
       "/", " ", "r", "u", "b", "l", "e", "s" >>,
       "rub" >>,
    << << "U+043C", "U+043B", "U+043D", ".", "U+0440", "U+0443", "U+0431",
       "U+043B", "U+0435", "U+0439" >>,
       "mln_rub" >>,
    << << "U+0418", "U+043D", "U+0434", "U+0435", "U+043A", "U+0441", " ",
       "U+0444", "U+0438", "U+0437", "U+0438", "U+0447", "U+0435", "U+0441",
       "U+043A", "U+043E", "U+0433", "U+043E", " ", "U+043E", "U+0431", "U+044A",
       "U+0435", "U+043C", "U+0430", " ", "U+043F", "U+0440", "U+043E", "U+0438",
       "U+0437", "U+0432", "U+0435", "U+0434", "U+0435", "U+043D", "U+043D",
       "U+043E", "U+0433", "U+043E", " ", "U+0412", "U+0412", "U+041F", ",", " ",
       "U+0432", " ", "%" >>,
       "yoy" >>,
    << << "U+0432", " ", "%", " ", "U+043A", " ", "U+0434", "U+0435",
       "U+043A", "U+0430", "U+0431", "U+0440", "U+044E", " ", "U+043F", "U+0440",
       "U+0435", "U+0434", "U+044B", "U+0434", "U+0443", "U+0449", "U+0435",
       "U+0433", "U+043E", " ", "U+0433", "U+043E", "U+0434", "U+0430" >>,
       "ytd" >>,
    << << "U+0432", " ", "%", " ", "U+043A", " ", "U+043F", "U+0440",
       "U+0435", "U+0434", "U+044B", "U+0434", "U+0443", "U+0449", "U+0435",
       "U+043C", "U+0443", " ", "U+043C", "U+0435", "U+0441", "U+044F", "U+0446",
       "U+0443" >>,
       "rog" >>,
    << << "U+0432", " ", "%", " ", "U+043A", " ", "U+043F", "U+0440",
       "U+0435", "U+0434", "U+044B", "U+0434", "U+0443", "U+0449", "U+0435",
       "U+043C", "U+0443", " ", "U+043F", "U+0435", "U+0440", "U+0438", "U+043E",
       "U+0434", "U+0443" >>,
       "rog" >>,
    << << "%", " ", "U+043A", " ", "U+043A", "U+043E", "U+043D", "U+0446",
       "U+0443", " ", "U+043F", "U+0440", "U+0435", "U+0434", "U+044B", "U+0434",
       "U+0443", "U+0449", "U+0435", "U+0433", "U+043E", " ", "U+043F", "U+0435",
       "U+0440", "U+0438", "U+043E", "U+0434", "U+0430" >>,
       "rog" >>,
    << << "U+043F", "U+0435", "U+0440", "U+0438", "U+043E", "U+0434", " ",
       "U+0441", " ", "U+043D", "U+0430", "U+0447", "U+0430", "U+043B", "U+0430",
       " ", "U+043E", "U+0442", "U+0447", "U+0435", "U+0442", "U+043D", "U+043E",
       "U+0433", "U+043E", " ", "U+0433", "U+043E", "U+0434", "U+0430", " ",
       "U+0432", " ", "%", " ", "U+043A", " ", "U+0441", "U+043E", "U+043E",
       "U+0442", "U+0432", "U+0435", "U+0442", "U+0441", "U+0442", "U+0432",
       "U+0443", "U+044E", "U+0449", "U+0435", "U+043C", "U+0443", " ", "U+043F",
       "U+0435", "U+0440", "U+0438", "U+043E", "U+0434", "U+0443", " ", "U+043F",
       "U+0440", "U+0435", "U+0434", "U+044B", "U+0434", "U+0443", "U+0449",
       "U+0435", "U+0433", "U+043E", " ", "U+0433", "U+043E", "U+0434", "U+0430"
       >>,
       "ytd" >>,
    << << "U+0432", " ", "%", " ", "U+043A", " ", "U+0441", "U+043E",
       "U+043E", "U+0442", "U+0432", "U+0435", "U+0442", "U+0441", "U+0442",
       "U+0432", "U+0443", "U+044E", "U+0449", "U+0435", "U+043C", "U+0443", " ",
       "U+043F", "U+0435", "U+0440", "U+0438", "U+043E", "U+0434", "U+0443", " ",
       "U+043F", "U+0440", "U+0435", "U+0434", "U+044B", "U+0434", "U+0443",
       "U+0449", "U+0435", "U+0433", "U+043E", " ", "U+0433", "U+043E", "U+0434",
       "U+0430" >>,
       "yoy" >>,
    << << "U+0432", " ", "%", " ", "U+043A", " ", "U+0441", "U+043E",
       "U+043E", "U+0442", "U+0432", "U+0435", "U+0442", "U+0441", "U+0442",
       "U+0432", "U+0443", "U+044E", "U+0449", "U+0435", "U+043C", "U+0443", " ",
       "U+043C", "U+0435", "U+0441", "U+044F", "U+0446", "U+0443", " ", "U+043F",
       "U+0440", "U+0435", "U+0434", "U+044B", "U+0434", "U+0443", "U+0449",
       "U+0435", "U+0433", "U+043E", " ", "U+0433", "U+043E", "U+0434", "U+0430"
       >>,
       "yoy" >>,
    << << "U+043E", "U+0442", "U+0447", "U+0435", "U+0442", "U+043D",
       "U+044B", "U+0439", " ", "U+043C", "U+0435", "U+0441", "U+044F", "U+0446",
       " ", "U+0432", " ", "%", " ", "U+043A", " ", "U+043F", "U+0440", "U+0435",
       "U+0434", "U+044B", "U+0434", "U+0443", "U+0449", "U+0435", "U+043C",
       "U+0443", " ", "U+043C", "U+0435", "U+0441", "U+044F", "U+0446", "U+0443"
       >>,
       "rog" >>,
    << << "U+043E", "U+0442", "U+0447", "U+0435", "U+0442", "U+043D",
       "U+044B", "U+0439", " ", "U+043C", "U+0435", "U+0441", "U+044F", "U+0446",
       " ", "U+0432", " ", "%", " ", "U+043A", " ", "U+0441", "U+043E", "U+043E",
       "U+0442", "U+0432", "U+0435", "U+0442", "U+0441", "U+0442", "U+0432",
       "U+0443", "U+044E", "U+0449", "U+0435", "U+043C", "U+0443", " ", "U+043C",
       "U+0435", "U+0441", "U+044F", "U+0446", "U+0443", " ", "U+043F", "U+0440",
       "U+0435", "U+0434", "U+044B", "U+0434", "U+0443", "U+0449", "U+0435",
       "U+0433", "U+043E", " ", "U+0433", "U+043E", "U+0434", "U+0430" >>,
       "yoy" >>,
    << << "U+043F", "U+0435", "U+0440", "U+0438", "U+043E", "U+0434", " ",
       "U+0441", " ", "U+043D", "U+0430", "U+0447", "U+0430", "U+043B", "U+0430",
       " ", "U+043E", "U+0442", "U+0447", "U+0435", "U+0442", "U+043D", "U+043E",
       "U+0433", "U+043E", " ", "U+0433", "U+043E", "U+0434", "U+0430" >>,
       "ytd" >>,
    << << "%" >>,
       "pct" >>,
    << << "U+0432", " ", "%", " ", "U+043A", " ", "U+0412", "U+0412", "U+041F"
       >>,
       "gdp_percent" >>,
    << << "U+043C", "U+043B", "U+0440", "U+0434", ".", " ", "U+0442",
       "U+043E", "U+043D", "U+043D", "U+043E", "-", "U+043A", "U+043C" >>,
       "bln_tkm" >>,
    << << "U+043F", "U+0440", "U+043E", "U+0434", "U+0443", "U+043A",
       "U+0442", "U+044B", " ", "U+043F", "U+0438", "U+0442", "U+0430", "U+043D",
       "U+0438", "U+044F" >>,
       "rog" >>,
    << << "U+0430", "U+043B", "U+043A", "U+043E", "U+0433", "U+043E",
       "U+043B", "U+044C", "U+043D", "U+044B", "U+0435", " ", "U+043D", "U+0430",
       "U+043F", "U+0438", "U+0442", "U+043A", "U+0438" >>,
       "rog" >>,
    << << "U+043D", "U+0435", "U+043F", "U+0440", "U+043E", "U+0434",
       "U+043E", "U+0432", "U+043E", "U+043B", "U+044C", "U+0441", "U+0442",
       "U+0432", "U+0435", "U+043D", "U+043D", "U+044B", "U+0435", " ", "U+0442",
       "U+043E", "U+0432", "U+0430", "U+0440", "U+044B" >>,
       "rog" >>,
    << << "U+043D", "U+0435", "U+043F", "U+0440", "U+043E", "U+0434",
       "U+043E", "U+0432", "U+043E", "U+043B", "U+044C", "U+0441", "U+0442", "-",
       " ", "U+0432", "U+0435", "U+043D", "U+043D", "U+044B", "U+0435", " ",
       "U+0442", "U+043E", "U+0432", "U+0430", "U+0440", "U+044B" >>,
       "rog" >>,
    << << "U+0443", "U+0441", "U+043B", "U+0443", "U+0433", "U+0438" >>,
       "rog" >>
  >>

\* data cells: empty text or a number
Cells == {<<>>, <<"1">>}
DataLists == {<<>>} \cup {<<c>> : c \in Cells} \cup {<<c, d>> : c \in Cells, d \in Cells}

\* header rows whose label is a pattern of UNITS
UnitRows == {[name |-> UNITS[i][1], data |-> <<>>] : i \in 1..Len(UNITS)}

RowInputs ==
    {[name |-> n, data |-> d] : n \in YearNames, d \in DataLists}
    \cup {[name |-> n, data |-> d] : n \in Labels, d \in {<<>>, <<<<"1">>, <<>>>>}}
    \cup UnitRows

\* mapper keys and lexicon patterns: one or two characters
Keys == {<<c>> : c \in Chars} \cup {<<c, d>> : c \in Chars, d \in Chars}
Varnames == {"X", "Y"}
\* dictionaries of at most two keys
Mappings ==
    {<<>>} \cup
    {[k \in {k1, k2} |-> IF k = k1 THEN v1 ELSE v2] :
        k1 \in Keys, k2 \in Keys, v1 \in Varnames, v2 \in Varnames}
Patterns == {<<"a">>, <<"b">>, <<"a", "b">>, <<"b", "a">>, <<"b", "b">>}
UnitCodes == {"pct", "pct_chg"}
Lexicons ==
    {<<>>, UNITS} \cup {<<<<p, u>>>> : p \in Patterns, u \in UnitCodes}
    \cup {l \in {<<<<p1, "pct">>, <<p2, "pct_chg">>>> : p1 \in Patterns, p2 \in Patterns} :
              l[1][1] # l[2][1]}

NoCall == [op |-> "none"]

GetVarname ==
    /\ call.op = "none"
    /\ \E mapping \in Mappings :
        /\ call' = [op |-> "get_varname", arg |-> mapping, result |-> get_varname(row, mapping)]
        /\ UNCHANGED <<row, rows, popped, instr, outcome, appended, markers, bounds,
                       main, segment_definitions, answer, pc, queue>>

GetUnit ==
    /\ call.op = "none"
    /\ \E lexicon \in Lexicons :
        /\ call' = [op |-> "get_unit", arg |-> lexicon, result |-> Returned(get_unit(row, lexicon))]
        /\ UNCHANGED <<row, rows, popped, instr, outcome, appended, markers, bounds,
                       main, segment_definitions, answer, pc, queue>>

IsDatarow ==
    /\ call.op = "none"
    /\ call' = [op |-> "is_datarow", arg |-> <<>>, result |-> Returned(is_datarow(row))]
    /\ UNCHANGED <<row, rows, popped, instr, outcome, appended, markers, bounds,
                   main, segment_definitions, answer, pc, queue>>

----------------------------------------------------------------------------
(* kep.rows.RowStack *)

\* index of the first row at or after position from that starts with x; 0 if none
first_index(rs, x, from) ==
    IF \E k \in from..Len(rs) : startswith(rs[k], x)
    THEN CHOOSE k \in from..Len(rs) :
             /\ startswith(rs[k], x)
             /\ \A j \in from..(k - 1) : ~startswith(rs[j], x)
    ELSE 0

\* a slip: the end-marker row is taken into the segment too
pop_with_end_row(rs, start, end) ==
    LET s == first_index(rs, start, 1)
        e == IF s = 0 THEN 0 ELSE first_index(rs, end, s + 1)
    IN IF s = 0 THEN [segment |-> <<>>, rows |-> rs]
       ELSE IF e = 0
       THEN [segment |-> SubSeq(rs, s, Len(rs)), rows |-> SubSeq(rs, 1, s - 1)]
       ELSE [segment |-> SubSeq(rs, s, e),
             rows |-> SubSeq(rs, 1, s - 1) \o SubSeq(rs, e + 1, Len(rs))]

\* a slip: the rows before the start row are thrown away with the segment
pop_truncating(rs, start, end) ==
    LET s == first_index(rs, start, 1)
        e == IF s = 0 THEN 0 ELSE first_index(rs, end, s + 1)
    IN IF s = 0 THEN [segment |-> <<>>, rows |-> rs]
       ELSE IF e = 0 THEN [segment |-> SubSeq(rs, s, Len(rs)), rows |-> <<>>]
       ELSE [segment |-> SubSeq(rs, s, e - 1), rows |-> SubSeq(rs, e, Len(rs))]

\* RowStack.pop(start, end): the run from the first row starting with start up
\* to the row before the first later row starting with end is taken out of the
\* store and returned; the rows before the run and the rows from the end row
\* on stay. With no start row nothing is popped; with no later end row the run
\* extends to the last row.
\* The rows before the run stay because the store is read again for them: SPEC
\* declares the segment of section 3.5 before those of sections 1.12 and 2.1
\* (spec.py:440-524), and the main definition, which comes last, names the
\* tables of section 1 (spec.py:375-399); the piece is "extracted out of" the
\* file (spec.py:16-17).
pop(rs, start, end) ==
    LET s == first_index(rs, start, 1)
        e == IF s = 0 THEN 0 ELSE first_index(rs, end, s + 1)
    IN IF s = 0 THEN [segment |-> <<>>, rows |-> rs]
       ELSE IF e = 0
       THEN [segment |-> SubSeq(rs, s, Len(rs)), rows |-> SubSeq(rs, 1, s - 1)]
       ELSE [segment |-> SubSeq(rs, s, e - 1),
             rows |-> SubSeq(rs, 1, s - 1) \o SubSeq(rs, e, Len(rs))]

remaining_rows(rs) == rs

\* row labels of the RowStack runs, and the markers looked for in them
StackNames == {<<"a">>, <<"b">>, <<"a", "b">>}
StackMarkers == StackNames \cup {<<Quote, "b">>}

\* RowStack(rows): the rows of the input in order; line is a row's place in the
\* input and tells equal-looking rows apart
RowStack(names) == [k \in 1..Len(names) |-> [name |-> names[k], data |-> <<>>, line |-> k]]

RowStacks(N, n) == {RowStack(names) : names \in AllSeqs(N, n)}

Pop ==
    /\ \E start \in StackMarkers, end \in StackMarkers :
        LET p == pop(rows, start, end) IN
        /\ popped' = [op |-> "pop", before |-> rows, start |-> start,
                      end |-> end, segment |-> p.segment]
        /\ rows' = p.rows
    /\ UNCHANGED <<row, call, instr, outcome, appended, markers, bounds,
                   main, segment_definitions, answer, pc, queue>>

NoPop == [op |-> "none"]

----------------------------------------------------------------------------
(* kep.spec: UNITS, as_list, ParsingInstruction *)

MaxAppends == 3     \* appends that return, on one ParsingInstruction

\* UNITS.values(): the unit codes of the mapper dictionary
UNITS_values == {"bln_usd", "bln_rub", "rub", "mln_rub", "yoy", "ytd", "rog",
                 "pct", "gdp_percent", "bln_tkm"}

\* A str or a list argument, as the caller passes it.
Str(x) == [type |-> "str", v |-> x]
List(xs) == [type |-> "list", v |-> xs]

as_list(x) == IF x.type = "str" THEN <<x.v>> ELSE x.v

\* OrderedDict as a sequence of <<key, value>> in insertion order
od_keys(d) == {d[k][1] : k \in 1..Len(d)}
od_values(d) == {d[k][2] : k \in 1..Len(d)}
od_set(d, key, value) ==
    IF key \in od_keys(d)
    THEN [k \in 1..Len(d) |-> IF d[k][1] = key THEN <<key, value>> ELSE d[k]]
    ELSE Append(d, <<key, value>>)

\* dict.update(pairs): the pairs set one after the other
RECURSIVE od_update(_, _)
od_update(d, pairs) ==
    IF pairs = <<>> THEN d
    ELSE od_update(od_set(d, Head(pairs)[1], Head(pairs)[2]), Tail(pairs))

\* ParsingInstruction.__init__
ParsingInstruction ==
    [varname_mapper |-> <<>>, required_labels |-> <<>>, descriptions |-> <<>>]

\* ParsingInstruction._verify_inputs: the exception it raises, or "none"
_verify_inputs(self, varname, required_units) ==
    IF varname \in od_values(self.varname_mapper) THEN "ValueError"
    ELSE IF \E k \in 1..Len(as_list(required_units)) :
                as_list(required_units)[k] \notin UNITS_values
    THEN "ValueError"
    ELSE "none"

\* ParsingInstruction.append: [exc, self] with self the instruction afterwards.
\* desc is PyFalse when the caller gives none.
append(self, varname, text, required_units, desc) ==
    LET checked == _verify_inputs(self, varname, required_units)
        header_strings == as_list(text)
        units == as_list(required_units)
    IN IF checked # "none" THEN [exc |-> checked, self |-> self]
       ELSE IF desc = PyFalse /\ header_strings = <<>>
       THEN [exc |-> "IndexError", self |-> self]
       ELSE LET d == IF desc = PyFalse THEN header_strings[1] ELSE desc
                _vmapper == [k \in 1..Len(header_strings) |-> <<header_strings[k], varname>>]
                _required_labels == [k \in 1..Len(units) |-> <<varname, units[k]>>]
            IN [exc |-> "none",
                self |-> [varname_mapper |-> od_update(self.varname_mapper, _vmapper),
                          required_labels |-> self.required_labels \o _required_labels,
                          descriptions |-> od_set(self.descriptions, varname, d)]]

----------------------------------------------------------------------------
(* kep.spec: Scope *)

MaxMarkers == 2     \* alternative (start, end) pairs held by one Scope

\* Scope.add_bounds: [exc, markers]; an empty marker is refused
add_bounds(self, start, end) ==
    IF start # <<>> /\ end # <<>>
    THEN [exc |-> "none", markers |-> Append(self, [start |-> start, end |-> end])]
    ELSE [exc |-> "ValueError", markers |-> self]

\* Scope._is_found: line is found at the start of some entry of rows
_is_found(line, rs) == \E k \in 1..Len(rs) : startswith(rs[k], line)

\* Scope._error_message: the heading, then for every marker pair two lines
\* "is_found: <flag> <line>"
RECURSIVE _error_lines(_, _)
_error_lines(self, rs) ==
    IF self = <<>> THEN <<>>
    ELSE << [is_found |-> _is_found(Head(self).start, rs), line |-> Head(self).start],
            [is_found |-> _is_found(Head(self).end, rs), line |-> Head(self).end] >>
         \o _error_lines(Tail(self), rs)

_error_message(self, rs) ==
    [heading |-> "start or end line not found in *rows*", lines |-> _error_lines(self, rs)]

\* a slip: a pair counts as found when either of its markers is
RECURSIVE get_bounds_either_from(_, _, _)
get_bounds_either_from(self, rs, i) ==
    IF i > Len(self)
    THEN [exc |-> "ValueError", value |-> "none", msg |-> _error_message(self, rs)]
    ELSE IF _is_found(self[i].start, rs) \/ _is_found(self[i].end, rs)
    THEN [exc |-> "none", value |-> <<self[i].start, self[i].end>>, msg |-> "none"]
    ELSE get_bounds_either_from(self, rs, i + 1)

get_bounds_either(self, rs) == get_bounds_either_from(self, rs, 1)

\* Scope.get_bounds: the loop over the marker pairs from pair i on; the first
\* pair with both lines found is returned, and with none found ValueError is
\* raised with _error_message(rows)
RECURSIVE get_bounds_from(_, _, _)
get_bounds_from(self, rs, i) ==
    IF i > Len(self)
    THEN [exc |-> "ValueError", value |-> "none", msg |-> _error_message(self, rs)]
    ELSE IF _is_found(self[i].start, rs) /\ _is_found(self[i].end, rs)
    THEN [exc |-> "none", value |-> <<self[i].start, self[i].end>>, msg |-> "none"]
    ELSE get_bounds_from(self, rs, i + 1)

get_bounds(self, rs) == get_bounds_from(self, rs, 1)

\* Scope.__init__(start, end)
Scope(start, end) == add_bounds(<<>>, start, end)

\* rows given to Scope.get_bounds: at most two rows
ScopeRows ==
    {RowStack(<<>>)} \cup {RowStack(<<n>>) : n \in StackNames}
    \cup {RowStack(<<n, m>>) : n \in StackNames, m \in StackNames}
ScopeMarkers == {<<>>} \cup StackMarkers

NoBounds == [op |-> "none"]

AddBounds ==
    /\ Len(markers) < MaxMarkers
    /\ \E start \in ScopeMarkers, end \in ScopeMarkers :
        LET r == add_bounds(markers, start, end) IN
        /\ markers' = r.markers
        /\ bounds' = [op |-> "add_bounds", exc |-> r.exc]
    /\ UNCHANGED <<row, call, rows, popped, instr, outcome, appended,
                   main, segment_definitions, answer, pc, queue>>

GetBounds ==
    /\ \E rs \in ScopeRows :
        LET r == get_bounds(markers, rs) IN
        bounds' = [op |-> "get_bounds", rows |-> rs, exc |-> r.exc, value |-> r.value,
                   msg |-> r.msg]
    /\ UNCHANGED <<row, call, rows, popped, instr, outcome, appended, markers,
                   main, segment_definitions, answer, pc, queue>>

----------------------------------------------------------------------------
(* kep.spec: Definition *)

\* Definition.__init__(scope, reader): scope is a Scope's marker list, <<>> for
\* scope=False; reader is a reader name, PyFalse for reader=False
Definition(scope, reader) ==
    [instr |-> ParsingInstruction, scope |-> scope, reader |-> reader]

\* Definition.append: delegates to the instruction; [exc, self]
Definition_append(self, varname, text, required_units, desc) ==
    LET r == append(self.instr, varname, text, required_units, desc)
    IN [exc |-> r.exc, self |-> [self EXCEPT !.instr = r.self]]

get_varname_mapper(self) == self.instr.varname_mapper

Definition_get_required_labels(self) == self.instr.required_labels

\* Definition.get_varnames: list(set(values)), a list in no particular order
Definition_get_varnames(self) ==
    [type |-> "list", items |-> od_values(get_varname_mapper(self))]

get_reader(self) == self.reader

\* Definition.get_bounds: self.scope.get_bounds(rows); scope=False has no such method
Definition_get_bounds(self, rs) ==
    IF self.scope = <<>>
    THEN [exc |-> "AttributeError", value |-> "none", msg |-> "none"]
    ELSE get_bounds(self.scope, rs)

----------------------------------------------------------------------------
(* kep.spec: Specification *)

MaxSegments == 2    \* segment definitions appended to one Specification

Specification_append(self, pdef) == Append(self, pdef)

get_main_parsing_definition == main

\* a slip: the list is handed out in reverse
segment_definitions_reversed ==
    [k \in 1..Len(segment_definitions) |->
        segment_definitions[Len(segment_definitions) + 1 - k]]

get_segment_parsing_definitions == segment_definitions

\* a slip: the main definition put after the segment definitions
all_definitions_main_last == segment_definitions \o <<main>>

all_definitions == <<main>> \o segment_definitions

\* Specification.get_required_labels: req.extend(...) over all_definitions()
RECURSIVE extend_required_labels(_, _)
extend_required_labels(req, pdefs) ==
    IF pdefs = <<>> THEN req
    ELSE extend_required_labels(req \o Definition_get_required_labels(Head(pdefs)),
                                Tail(pdefs))

Specification_get_required_labels == extend_required_labels(<<>>, all_definitions)

\* set.add(x): a list is unhashable and cannot be an element of a set
set_add(set, x) ==
    IF x.type = "list" THEN Raised("TypeError") ELSE Returned(set \cup {x})

\* Specification.get_varnames: varnames.add(pdef.get_varnames()) over
\* all_definitions(), then list(varnames)
RECURSIVE add_varnames(_, _)
add_varnames(varnames, pdefs) ==
    IF pdefs = <<>> THEN Returned(varnames)
    ELSE LET r == set_add(varnames, Definition_get_varnames(Head(pdefs)))
         IN IF r.exc # "none" THEN r ELSE add_varnames(r.value, Tail(pdefs))

Specification_get_varnames == add_varnames({}, all_definitions)

----------------------------------------------------------------------------
(* Calls on one ParsingInstruction *)

TextArgs == {Str(<<"a">>), List(<<>>), List(<< <<"a">>, <<"b">> >>)}
UnitArgs == {Str("rog"), List(<<"rog", "yoy">>), List(<<"yoy", "bogus">>)}
DescArgs == {PyFalse, "d"}

NoAppend == [op |-> "none"]

AppendCall ==
    /\ Len(appended) < MaxAppends
    /\ \E varname \in Varnames, text \in TextArgs, required_units \in UnitArgs,
          desc \in DescArgs :
        LET r == append(instr, varname, text, required_units, desc) IN
        /\ instr' = r.self
        /\ outcome' = [op |-> "append", varname |-> varname, text |-> text,
                       required_units |-> required_units, desc |-> desc,
                       exc |-> r.exc, before |-> instr, earlier |-> appended]
        /\ appended' = IF r.exc = "none" THEN Append(appended, varname) ELSE appended
    /\ UNCHANGED <<row, call, rows, popped, markers, bounds,
                   main, segment_definitions, answer, pc, queue>>

----------------------------------------------------------------------------
(* Definitions given to a Specification *)

\* d.append(varname, text, required_units) of a call that does not raise
defined(d, varname, text, required_units) ==
    Definition_append(d, varname, text, required_units, PyFalse).self

DefaultDefinition ==
    defined(defined(Definition(<<>>, PyFalse), "X", Str(<<"a">>), List(<<"rog", "yoy">>)),
            "Y", List(<< <<"b">>, <<"a", "b">> >>), Str("pct"))

MainDefinitions ==
    {Definition(<<>>, PyFalse),
     defined(Definition(<<>>, PyFalse), "X", Str(<<"a">>), Str("rog")),
     DefaultDefinition}

SegmentDefinitions ==
    {defined(Definition(Scope(<<"a">>, <<"b">>).markers, PyFalse),
             "X", Str(<<"a">>), Str("bln_rub")),
     defined(Definition(Scope(<<"b">>, <<"a">>).markers, "fiscal"),
             "Z", Str(<<"b">>), List(<<"bln_rub", "yoy">>)),
     defined(Definition(add_bounds(Scope(<<"a", "b">>, <<"a">>).markers,
                                   <<"b">>, <<"a", "b">>).markers, PyFalse),
             "W", Str(<<"a">>), Str("rog")),
     defined(Definition(<<>>, PyFalse), "V", Str(<<"b">>), Str("rog"))}

----------------------------------------------------------------------------
(* Calls on one Specification *)

NoAnswer == [op |-> "none"]

SpecificationAppend ==
    /\ Len(segment_definitions) < MaxSegments
    /\ \E pdef \in SegmentDefinitions :
        segment_definitions' = Specification_append(segment_definitions, pdef)
    /\ answer' = [op |-> "append"]
    /\ UNCHANGED <<row, call, rows, popped, instr, outcome, appended, markers, bounds,
                   main, pc, queue>>

AllDefinitions ==
    /\ answer' = [op |-> "all_definitions", result |-> Returned(all_definitions)]
    /\ UNCHANGED <<row, call, rows, popped, instr, outcome, appended, markers, bounds,
                   main, segment_definitions, pc, queue>>

GetRequiredLabels ==
    /\ answer' = [op |-> "get_required_labels",
                  result |-> Returned(Specification_get_required_labels)]
    /\ UNCHANGED <<row, call, rows, popped, instr, outcome, appended, markers, bounds,
                   main, segment_definitions, pc, queue>>

GetVarnames ==
    /\ answer' = [op |-> "get_varnames", result |-> Specification_get_varnames]
    /\ UNCHANGED <<row, call, rows, popped, instr, outcome, appended, markers, bounds,
                   main, segment_definitions, pc, queue>>

----------------------------------------------------------------------------
(* kep.tables.Tables.make_queue, as the module docstring of kep.spec gives it: *)
(* one (csv_segment, pdef) pair per segment definition, then one for main.     *)

\* one turn of the loop over the segment definitions: bounds, then the pop.
\* against is the rows the turn started with.
NextSegment ==
    /\ pc = "segments"
    /\ Len(queue) < Len(get_segment_parsing_definitions)
    /\ LET pdef == get_segment_parsing_definitions[Len(queue) + 1]
           b == Definition_get_bounds(pdef, rows)
           p == pop(rows, b.value[1], b.value[2])
       IN /\ b.exc = "none"
          /\ rows' = p.rows
          /\ queue' = Append(queue, [csv_segment |-> p.segment, pdef |-> pdef,
                                     against |-> rows, bounds |-> b.value])
    /\ UNCHANGED <<row, call, popped, instr, outcome, appended, markers, bounds,
                   main, segment_definitions, answer, pc>>

\* get_bounds raises: nothing catches it, the generator ends there
SegmentFails ==
    /\ pc = "segments"
    /\ Len(queue) < Len(get_segment_parsing_definitions)
    /\ Definition_get_bounds(get_segment_parsing_definitions[Len(queue) + 1], rows).exc
           # "none"
    /\ pc' = "failed"
    /\ UNCHANGED <<row, call, rows, popped, instr, outcome, appended, markers, bounds,
                   main, segment_definitions, answer, queue>>

\* after the loop: the main definition with the remaining rows
MainSegment ==
    /\ pc = "segments"
    /\ Len(queue) = Len(get_segment_parsing_definitions)
    /\ queue' = Append(queue, [csv_segment |-> remaining_rows(rows),
                               pdef |-> get_main_parsing_definition,
                               against |-> rows])
    /\ pc' = "done"
    /\ UNCHANGED <<row, call, rows, popped, instr, outcome, appended, markers, bounds,
                   main, segment_definitions, answer>>

----------------------------------------------------------------------------
(* Specifications *)

RowIdle == row = [name |-> <<>>, data |-> <<>>] /\ call = NoCall
StackIdle == rows = <<>> /\ popped = NoPop
InstrIdle == instr = ParsingInstruction /\ outcome = NoAppend /\ appended = <<>>
ScopeIdle == markers = <<>> /\ bounds = NoBounds
SpecificationIdle ==
    main = Definition(<<>>, PyFalse) /\ segment_definitions = <<>> /\ answer = NoAnswer
QueueIdle == pc = "idle" /\ queue = <<>>

\* one extraction run of Tables.make_queue over a Specification and a RowStack
Init ==
    /\ rows \in RowStacks(StackNames, MaxRows)
    /\ popped = NoPop
    /\ main = DefaultDefinition
    /\ segment_definitions \in AllSeqs(SegmentDefinitions, MaxSegments)
    /\ answer = NoAnswer
    /\ pc = "segments"
    /\ queue = <<>>
    /\ RowIdle /\ InstrIdle /\ ScopeIdle

Next == NextSegment \/ SegmentFails \/ MainSegment

Spec == Init /\ [][Next]_vars

\* the Row methods on one row
InitRow ==
    /\ row \in RowInputs
    /\ call = NoCall
    /\ StackIdle /\ InstrIdle /\ ScopeIdle /\ SpecificationIdle /\ QueueIdle

NextRow == GetVarname \/ GetUnit \/ IsDatarow

SpecRow == InitRow /\ [][NextRow]_vars

\* pops on one RowStack
InitStack ==
    /\ rows \in RowStacks(StackNames, MaxRows)
    /\ popped = NoPop
    /\ RowIdle /\ InstrIdle /\ ScopeIdle /\ SpecificationIdle /\ QueueIdle

NextStack == Pop

SpecStack == InitStack /\ [][NextStack]_vars

\* appends on one ParsingInstruction
InitInstr ==
    /\ InstrIdle
    /\ RowIdle /\ StackIdle /\ ScopeIdle /\ SpecificationIdle /\ QueueIdle

NextInstr == AppendCall

SpecInstr == InitInstr /\ [][NextInstr]_vars

\* one Scope: constructed with a first marker pair, more pairs added, resolved
InitScope ==
    /\ markers \in {Scope(start, end).markers :
                        start \in ScopeMarkers \ {<<>>}, end \in ScopeMarkers \ {<<>>}}
    /\ bounds = NoBounds
    /\ RowIdle /\ StackIdle /\ InstrIdle /\ SpecificationIdle /\ QueueIdle

NextScope == AddBounds \/ GetBounds

SpecScope == InitScope /\ [][NextScope]_vars

\* one Specification: segment definitions appended, the accessors called
InitSpecification ==
    /\ main \in MainDefinitions
    /\ segment_definitions = <<>>
    /\ answer = NoAnswer
    /\ RowIdle /\ StackIdle /\ InstrIdle /\ ScopeIdle /\ QueueIdle

NextSpecification ==
    SpecificationAppend \/ AllDefinitions \/ GetRequiredLabels \/ GetVarnames

SpecSpecification == InitSpecification /\ [][NextSpecification]_vars

----------------------------------------------------------------------------
(* Claims *)

\* the row's label prefix-matches the marker, quote characters set aside
PrefixMatches(r, marker) ==
    LET m == clean(marker)
        n == clean(r.name)
    IN Len(m) <= Len(n) /\ \A k \in 1..Len(m) : n[k] = m[k]

\* the line numbers of a sequence of rows
Lines(rs) == {rs[k].line : k \in 1..Len(rs)}

KeepsOrderOf(rs, from) ==
    /\ \A k \in 1..Len(rs) : \E j \in 1..Len(from) : rs[k] = from[j]
    /\ \A j \in 1..Len(rs), k \in 1..Len(rs) : j < k => rs[j].line < rs[k].line

FirstMatch(rs, marker) ==
    IF \E k \in 1..Len(rs) : PrefixMatches(rs[k], marker)
    THEN CHOOSE k \in 1..Len(rs) :
             /\ PrefixMatches(rs[k], marker)
             /\ \A j \in 1..(k - 1) : ~PrefixMatches(rs[j], marker)
    ELSE 0

\* C13 as stated: whenever get_bounds succeeds on the remaining rows and
\* returns (start, end), the following pop(start, end) on those rows returns a
\* non-empty segment whose first row prefix-matches start and none of whose
\* rows prefix-matches end: an end row occurs after the first start row, and
\* the start row is not itself an end row. (Spec)
C13_BoundsFoundGivesCleanSegment ==
    \A k \in 1..Len(queue) :
        k <= Len(segment_definitions) =>
            LET q == queue[k]
                s == FirstMatch(q.against, q.bounds[1])
            IN /\ q.csv_segment # <<>>
               /\ PrefixMatches(q.csv_segment[1], q.bounds[1])
               /\ \A j \in 1..Len(q.csv_segment) :
                      ~PrefixMatches(q.csv_segment[j], q.bounds[2])
               /\ \E e \in (s + 1)..Len(q.against) :
                      PrefixMatches(q.against[e], q.bounds[2])
               /\ ~PrefixMatches(q.against[s], q.bounds[2])

\* C13 as amended: whenever get_bounds succeeds on the remaining rows and
\* returns (start, end), some row prefix-matches start and some row
\* prefix-matches end, in whatever order; when the first row prefix-matching
\* end comes after the first row prefix-matching start, the following pop
\* returns a non-empty segment that begins with that start row and holds no row
\* prefix-matching end. (Spec)
C13_BoundsFoundGivesBothMarkerRows ==
    \A k \in 1..Len(queue) :
        k <= Len(segment_definitions) =>
            LET q == queue[k]
                s == FirstMatch(q.against, q.bounds[1])
                e == FirstMatch(q.against, q.bounds[2])
            IN /\ s > 0
               /\ e > 0
               /\ s < e =>
                    /\ q.csv_segment # <<>>
                    /\ q.csv_segment[1] = q.against[s]
                    /\ \A j \in 1..Len(q.csv_segment) :
                           ~PrefixMatches(q.csv_segment[j], q.bounds[2])

\* a segment Definition whose bounds were found with the only end row before
\* the start row, and one whose end row follows its start row and which was
\* handed the rows between them
C13_Witness ==
    \E k \in 1..Len(queue), l \in 1..Len(queue) :
        /\ k <= Len(segment_definitions)
        /\ l <= Len(segment_definitions)
        /\ FirstMatch(queue[k].against, queue[k].bounds[2])
               < FirstMatch(queue[k].against, queue[k].bounds[1])
        /\ \A j \in 1..Len(queue[k].against) :
               PrefixMatches(queue[k].against[j], queue[k].bounds[2])
                   => j < FirstMatch(queue[k].against, queue[k].bounds[1])
        /\ FirstMatch(queue[l].against, queue[l].bounds[1])
               < FirstMatch(queue[l].against, queue[l].bounds[2])
        /\ Len(queue[l].csv_segment) >= 2

\* C3: Row.get_varname(mapping) looks at every key that is a quote-normalised
\* prefix of the label: none gives False, exactly one gives that key's
\* variable name, more than one raises ValueError; a key found only inside
\* the label is no hit. (SpecRow)
C3_GetVarnameByPrefixHits ==
    call.op = "get_varname" =>
        LET prefixes == {k \in DOMAIN call.arg : PrefixMatches(row, k)}
        IN /\ prefixes = {} => call.result = Returned(PyFalse)
           /\ \A k \in prefixes :
                  prefixes = {k} => call.result = Returned(call.arg[k])
           /\ Cardinality(prefixes) > 1 => call.result = Raised("ValueError")

\* the test's {'1. a': "ZZZ", '1. ab': "YYY"} on "1. abcd" in small: two keys
\* without quotes, one a prefix of the other and both of the label, and
\* ValueError is raised
C3_Witness ==
    /\ call.op = "get_varname"
    /\ \E k1 \in DOMAIN call.arg, k2 \in DOMAIN call.arg :
        /\ Len(k1) < Len(k2)
        /\ clean(k1) = k1 /\ clean(k2) = k2
        /\ IsPrefix(k1, k2) /\ IsPrefix(k2, row.name)
        /\ Len(k2) < Len(row.name)
    /\ call.result.exc = "ValueError"

\* C6: Row.get_unit(lexicon) returns the unit code of the first pattern, in
\* declared order, that occurs anywhere in the label, also when a longer
\* pattern that matches too is declared later. (SpecRow)
C6_GetUnitFirstDeclaredPattern ==
    call.op = "get_unit" =>
        LET found == {i \in 1..Len(call.arg) : IsSubstring(call.arg[i][1], row.name)}
        IN /\ found = {} => call.result.value = PyFalse
           /\ \A i \in found :
                  (\A j \in found : i <= j) => call.result.value = call.arg[i][2]

\* the lexicon [('%', pct), ('% change', pct_chg)] in small: both patterns
\* occur in the label, the later one is the longer, and pct is returned
C6_Witness ==
    /\ call.op = "get_unit"
    /\ Len(call.arg) = 2
    /\ IsSubstring(call.arg[1][1], row.name)
    /\ IsSubstring(call.arg[2][1], row.name)
    /\ Len(call.arg[2][1]) > Len(call.arg[1][1])
    /\ IsSubstring(call.arg[1][1], call.arg[2][1])
    /\ call.result.value = "pct"

\* C11: UNITS is ordered so that no entry is shadowed: for every entry of
\* UNITS, get_unit(UNITS) on a label equal to the entry's pattern returns the
\* entry's own unit code, so every unit code of UNITS can be returned. (SpecRow)
C11_UNITSEntryResolvesToOwnUnit ==
    (call.op = "get_unit" /\ call.arg = UNITS) =>
        \A i \in 1..Len(UNITS) :
            row.name = UNITS[i][1] => call.result.value = UNITS[i][2]

\* apart from the entry of gdp_percent every entry resolves to its own unit code
C11_OtherEntriesResolveToOwnUnit ==
    (call.op = "get_unit" /\ call.arg = UNITS) =>
        \A i \in 1..Len(UNITS) :
            (row.name = UNITS[i][1] /\ UNITS[i][2] # "gdp_percent")
                => call.result.value = UNITS[i][2]

\* no label whatever resolves to gdp_percent: its only pattern contains "%",
\* the pattern of pct, which is declared before it
C11_GdpPercentShadowed ==
    \A i \in 1..Len(UNITS) :
        UNITS[i][2] = "gdp_percent" =>
            \E j \in 1..(i - 1) :
                /\ IsSubstring(UNITS[j][1], UNITS[i][1])
                /\ UNITS[j][2] = "pct"

C2_SegmentsInOrderThenMain ==
    LET n == Len(segment_definitions) IN
    /\ Len(queue) <= n + 1
    /\ (pc = "done") <=> (Len(queue) = n + 1)
    /\ \A k \in 1..Len(queue) :
        /\ k <= n => queue[k].pdef = segment_definitions[k]
        /\ k = n + 1 =>
            /\ queue[k].pdef = main
            /\ queue[k].csv_segment = queue[k].against
            /\ queue[k].csv_segment = rows
        /\ k = 1 => Lines(queue[k].against) = 1..Len(queue[k].against)
        /\ k > 1 =>
            /\ Lines(queue[k].against) \subseteq Lines(queue[k - 1].against)
            /\ Lines(queue[k].against) \cap Lines(queue[k - 1].csv_segment) = {}
        /\ Lines(queue[k].csv_segment) \subseteq Lines(queue[k].against)
        /\ \A j \in 1..(k - 1) :
               Lines(queue[j].csv_segment) \cap Lines(queue[k].csv_segment) = {}

\* a finished run: two different segment Definitions and then main, each of
\* them handed at least one row
C2_Witness ==
    /\ pc = "done"
    /\ Len(queue) = 3
    /\ segment_definitions[1] # segment_definitions[2]
    /\ \A k \in 1..3 : queue[k].csv_segment # <<>>

\* C4 as stated: ParsingInstruction.append raises ValueError whenever the
\* variable name was already added to this instruction by an earlier append,
\* or a required unit code is no unit code of UNITS; when it raises, the
\* instruction is left as it was. (SpecInstr)
C4_AppendRefusesKnownVarname ==
    outcome.op = "append" =>
        ( ( \/ \E k \in 1..Len(outcome.earlier) : outcome.earlier[k] = outcome.varname
            \/ \E k \in 1..Len(as_list(outcome.required_units)) :
                   as_list(outcome.required_units)[k] \notin UNITS_values )
          => outcome.exc = "ValueError" )
        /\ (outcome.exc # "none" => instr = outcome.before)

\* C5: Scope.get_bounds(rows) tries the (start, end) pairs in the order they
\* were added and returns the first pair with both markers a prefix of some
\* row; it raises ValueError if and only if no pair has both markers present,
\* and the message then gives, for every pair, the found-flag of its start
\* marker and of its end marker. (SpecScope)
C5_GetBoundsFirstPairWithBothFound ==
    bounds.op = "get_bounds" =>
        LET present(m) ==
                \E k \in 1..Len(bounds.rows) : PrefixMatches(bounds.rows[k], m)
            good == {i \in 1..Len(markers) :
                        present(markers[i].start) /\ present(markers[i].end)}
        IN /\ bounds.exc \in {"none", "ValueError"}
           /\ (bounds.exc = "ValueError") <=> (good = {})
           /\ \A i \in good :
                  (\A j \in good : i <= j)
                  => bounds.value = <<markers[i].start, markers[i].end>>
           /\ good = {} =>
                /\ Len(bounds.msg.lines) = 2 * Len(markers)
                /\ \A i \in 1..Len(markers) :
                    /\ bounds.msg.lines[2 * i - 1]
                         = [is_found |-> present(markers[i].start),
                            line |-> markers[i].start]
                    /\ bounds.msg.lines[2 * i]
                         = [is_found |-> present(markers[i].end),
                            line |-> markers[i].end]

\* the first pair has its start marker in the rows but not its end marker, the
\* second pair has both, and the second pair is returned
C5_Witness ==
    /\ bounds.op = "get_bounds"
    /\ Len(markers) = 2
    /\ _is_found(markers[1].start, bounds.rows)
    /\ ~_is_found(markers[1].end, bounds.rows)
    /\ bounds.exc = "none"
    /\ bounds.value = <<markers[2].start, markers[2].end>>
    /\ markers[2].start # markers[2].end

\* C8 as stated: after any sequence of appends that returned, every
\* (variable name, unit code) pair of required_labels has a label text in
\* varname_mapper that maps to that variable name. (SpecInstr)
C8_RequiredLabelHasLabelText ==
    \A k \in 1..Len(instr.required_labels) :
        \E j \in 1..Len(instr.varname_mapper) :
            instr.varname_mapper[j][2] = instr.required_labels[k][1]

\* the variable names bound in the definitions of a list
VarnamesOf(pdefs) ==
    UNION {od_values(pdefs[k].instr.varname_mapper) : k \in 1..Len(pdefs)}

\* C9 as stated: Specification.get_varnames() returns, without raising, the
\* union of the variable names of the main Definition and of every segment
\* Definition, and get_required_labels() returns the concatenation of the
\* required-label lists of all held Definitions. (SpecSpecification)
C9_AccessorsAggregate ==
    /\ answer.op = "get_varnames" =>
        /\ answer.result.exc = "none"
        /\ answer.result.value = VarnamesOf(<<main>> \o segment_definitions)
    /\ answer.op = "get_required_labels" =>
        /\ answer.result.exc = "none"
        /\ answer.result.value
             = extend_required_labels(main.instr.required_labels, segment_definitions)

\* C10 as stated: all_definitions() is the segment Definitions in declaration
\* order with the main Definition as the last element. (SpecSpecification)
C10_AllDefinitionsMainLast ==
    answer.op = "all_definitions" =>
        LET all == answer.result.value IN
        /\ Len(all) = Len(segment_definitions) + 1
        /\ all[Len(all)] = main
        /\ \A k \in 1..Len(segment_definitions) : all[k] = segment_definitions[k]

\* C10 as amended: all_definitions() is the main Definition as the first
\* element, followed by the segment Definitions in declaration order.
\* (SpecSpecification)
C10_AllDefinitionsMainFirst ==
    answer.op = "all_definitions" =>
        LET all == answer.result.value IN
        /\ Len(all) = Len(segment_definitions) + 1
        /\ all[1] = main
        /\ \A k \in 1..Len(segment_definitions) : all[k + 1] = segment_definitions[k]

\* all_definitions() of a Specification with two different segment Definitions
C10_Witness ==
    /\ answer.op = "all_definitions"
    /\ Len(segment_definitions) = 2
    /\ segment_definitions[1] # segment_definitions[2]
    /\ answer.result.value[1] = main
    /\ answer.result.value[3] = segment_definitions[2]

====
